---- MODULE Spec2Model ----
(***************************************************************************)
(* Model of the file-compression job engine:                               *)
(*   workflows/file_compression.py  FileCompressionWorkflow.run and its    *)
(*                                  activities                             *)
(*   db/models.py                   the job record and its update functions*)
(*   routes/base.py                 the submission and the download routes *)
(*   clients/couchbase.py           CouchbaseClient: the connection manager *)
(*                                                                         *)
(* The workflow is a sequence of suspend points (activity calls and one    *)
(* timer).  Every execute_activity call passes only start_to_close_timeout *)
(* and no retry_policy, and the activities raise ApplicationError without  *)
(* non_retryable, so a failed attempt (exception or timeout) is scheduled  *)
(* again by the activity-execution layer, without a ceiling.  An activity  *)
(* call raises into the workflow only when the workflow is cancelled while *)
(* it waits for the activity.                                              *)
(***************************************************************************)
EXTENDS Integers, Sequences, FiniteSets, TLC

\* ---------------------------------------------------------------- bounds
MaxFiles == 2
MaxTimeouts == 1
MaxArchiveAttempts == 3
MaxLoops == 2
MaxTicks == 11
MaxWrites == 4

ArchiveSizes == {1, 4}
Formats == {"zip", "ZIP", "tar_gz", "Tar_Gz", "rar"}

\* ------------------------------------------------------------- Optional
None == <<>>
Some(x) == <<x>>
IsSome(o) == o # <<>>
Get(o) == o[1]

Min(a, b) == IF a < b THEN a ELSE b

\* ----------------------------------------------------------- data model
\* FileItem: name, content (base64 text: ok = it decodes, bytes = what it decodes
\* to, length = the number of those bytes), declared size.
FileItem ==
  { [name |-> "a.txt", ok |-> TRUE,  bytes |-> "ABC", length |-> 3, size |-> 3],
    [name |-> "a.txt", ok |-> TRUE,  bytes |-> "XYZ", length |-> 3, size |-> 0],
    [name |-> "b.txt", ok |-> TRUE,  bytes |-> "ABC", length |-> 3, size |-> 3],
    [name |-> "b.txt", ok |-> FALSE, bytes |-> "",    length |-> 0, size |-> 3] }

FileLists == UNION {[1..n -> FileItem] : n \in 1..MaxFiles}

\* CompressionJobInput (job_id is fixed: one job).
CompressionJobInput == [files : FileLists, compression_format : Formats]

\* ProgressUpdate as each call site of run builds it.
FailedMessage(e) ==
  CASE e = "unsupported_format" -> "Compression failed: Unsupported compression format"
    [] e = "activity_cancelled" -> "Compression failed: Activity cancelled"
    [] OTHER -> "Compression failed"

ProgressUpdate_mut_progress(status, e) ==
  CASE status = "starting"    -> [progress |-> 0,   status |-> status, message |-> Some("Initializing compression")]
    [] status = "preparing"   -> [progress |-> 20,  status |-> status, message |-> Some("Preparing files for compression")]
    [] status = "compressing" -> [progress |-> 50,  status |-> status, message |-> Some("Compressing files")]
    [] status = "finalizing"  -> [progress |-> 90,  status |-> status, message |-> Some("Finalizing compression")]
    [] status = "completed"   -> [progress |-> 100, status |-> status, message |-> Some("Compression completed successfully")]
    [] status = "failed"      -> [progress |-> 0,   status |-> status, message |-> Some(FailedMessage(e))]

ProgressUpdate_mut_regress(status, e) ==
  CASE status = "starting"    -> [progress |-> 0,   status |-> status, message |-> Some("Initializing compression")]
    [] status = "preparing"   -> [progress |-> 25,  status |-> status, message |-> Some("Preparing files for compression")]
    [] status = "compressing" -> [progress |-> 50,  status |-> status, message |-> Some("Compressing files")]
    [] status = "finalizing"  -> [progress |-> 40,  status |-> status, message |-> Some("Finalizing compression")]
    [] status = "completed"   -> [progress |-> 100, status |-> status, message |-> Some("Compression completed successfully")]
    [] status = "failed"      -> [progress |-> 0,   status |-> status, message |-> Some(FailedMessage(e))]

ProgressUpdate(status, e) ==
  CASE status = "starting"    -> [progress |-> 0,   status |-> status, message |-> Some("Initializing compression")]
    [] status = "preparing"   -> [progress |-> 25,  status |-> status, message |-> Some("Preparing files for compression")]
    [] status = "compressing" -> [progress |-> 50,  status |-> status, message |-> Some("Compressing files")]
    [] status = "finalizing"  -> [progress |-> 90,  status |-> status, message |-> Some("Finalizing compression")]
    [] status = "completed"   -> [progress |-> 100, status |-> status, message |-> Some("Compression completed successfully")]
    [] status = "failed"      -> [progress |-> 0,   status |-> status, message |-> Some(FailedMessage(e))]

\* sum(file.size for file in input.files)
RECURSIVE SumSizes_mut_decoded(_)
SumSizes_mut_decoded(fs) ==
  IF fs = <<>> THEN 0 ELSE fs[1].length + SumSizes_mut_decoded(Tail(fs))

RECURSIVE SumSizes(_)
SumSizes(fs) == IF fs = <<>> THEN 0 ELSE fs[1].size + SumSizes(Tail(fs))

\* str.lower() on the format strings of the model.
Lower(s) ==
  CASE s = "ZIP" -> "zip"
    [] s = "Tar_Gz" -> "tar_gz"
    [] OTHER -> s

\* The if / elif / else of run: the activity the format selects.
Dispatch_mut_default_zip(fmt) ==
  IF Lower(fmt) = "tar_gz" THEN "compress_files_tar_gz" ELSE "compress_files_zip"

Dispatch_mut_tar_fallback(fmt) ==
  IF Lower(fmt) = "zip" THEN "compress_files_zip" ELSE "compress_files_tar_gz"

Dispatch_mut_case_sensitive(fmt) ==
  IF fmt = "zip" THEN "compress_files_zip"
  ELSE IF fmt = "tar_gz" THEN "compress_files_tar_gz"
  ELSE "unsupported"

Dispatch(fmt) ==
  IF Lower(fmt) = "zip" THEN "compress_files_zip"
  ELSE IF Lower(fmt) = "tar_gz" THEN "compress_files_tar_gz"
  ELSE "unsupported"

\* base64.b64decode succeeds on every file of the input.
AllDecodable(fs) == \A i \in 1..Len(fs) : fs[i].ok

\* ((original_size - compressed_size) / original_size * 100) if original_size > 0 else 0,
\* kept as the exact fraction <<numerator, denominator>>.
CompressionRatio_mut_clamp(original, compressed) ==
  IF original > 0 /\ compressed <= original
  THEN <<(original - compressed) * 100, original>> ELSE <<0, 1>>

CompressionRatio(original, compressed) ==
  IF original > 0 THEN <<(original - compressed) * 100, original>> ELSE <<0, 1>>

\* ---------------------------------------------------------- job record
\* CompressionJob as create_compression_job_route creates it.
NewJob(inp) ==
  [status |-> "pending", progress |-> 0, message |-> None,
   file_count |-> Len(inp.files), original_size |-> SumSizes(inp.files),
   compressed_size |-> None, compression_ratio |-> None, compressed_data |-> None,
   started_at |-> None, completed_at |-> None]

\* update_compression_job_progress on a record that exists, at time t.
update_compression_job_progress_mut_restamp(job, progress, status, message, t) ==
  [job EXCEPT
     !.progress = progress,
     !.status = status,
     !.message = IF IsSome(message) THEN message ELSE @,
     !.started_at = IF status = "starting" THEN Some(t) ELSE @,
     !.completed_at = IF status \in {"completed", "failed"} THEN Some(t) ELSE @]

update_compression_job_progress(job, progress, status, message, t) ==
  [job EXCEPT
     !.progress = progress,
     !.status = status,
     !.message = IF IsSome(message) THEN message ELSE @,
     !.started_at = IF status = "starting" /\ ~IsSome(@) THEN Some(t) ELSE @,
     !.completed_at = IF ~(status = "starting" /\ ~IsSome(job.started_at))
                         /\ status \in {"completed", "failed"}
                      THEN Some(t) ELSE @]

\* complete_compression_job on a record that exists, at time t.
complete_compression_job(job, compressed_size, compression_ratio, compressed_data, t) ==
  [job EXCEPT
     !.status = "completed",
     !.progress = 100,
     !.compressed_size = Some(compressed_size),
     !.compression_ratio = Some(compression_ratio),
     !.compressed_data = Some(compressed_data),
     !.completed_at = Some(t),
     !.message = Some("Compression completed successfully")]

\* update_compression_job_progress with its "if job:" test: a missing row is left
\* missing and None is returned.
UpdateRow_mut_upsert(r, progress, status, message, t) ==
  IF IsSome(r)
  THEN Some(update_compression_job_progress(Get(r), progress, status, message, t))
  ELSE Some([status |-> status, progress |-> progress, message |-> message,
             file_count |-> 0, original_size |-> 0,
             compressed_size |-> None, compression_ratio |-> None,
             compressed_data |-> None, started_at |-> None, completed_at |-> None])

UpdateRow(r, progress, status, message, t) ==
  IF IsSome(r)
  THEN Some(update_compression_job_progress(Get(r), progress, status, message, t))
  ELSE r

\* complete_compression_job with its "if job:" test.
CompleteRow(r, compressed_size, compression_ratio, compressed_data, t) ==
  IF IsSome(r)
  THEN Some(complete_compression_job(Get(r), compressed_size, compression_ratio,
                                     compressed_data, t))
  ELSE r

\* base64.b64encode(...).decode() and base64.b64decode(...).
B64Encode(bytes) == [b64 |-> bytes]
B64Decode(text) == text.b64

\* download_compressed_file: the HTTP status with its detail, and the body.
download_compressed_file_mut_no_status_test(r) ==
  IF ~IsSome(r)
  THEN [op |-> "download_compressed_file", out |-> "404 Compression job not found",
        content |-> None]
  ELSE IF ~IsSome(Get(r).compressed_data)
  THEN [op |-> "download_compressed_file", out |-> "404 Compressed data not available",
        content |-> None]
  ELSE [op |-> "download_compressed_file", out |-> "200",
        content |-> Some(B64Decode(Get(Get(r).compressed_data)))]

download_compressed_file(r) ==
  IF ~IsSome(r)
  THEN [op |-> "download_compressed_file", out |-> "404 Compression job not found",
        content |-> None]
  ELSE IF Get(r).status # "completed"
  THEN [op |-> "download_compressed_file", out |-> "400 Job is not completed",
        content |-> None]
  ELSE IF ~IsSome(Get(r).compressed_data)
  THEN [op |-> "download_compressed_file", out |-> "404 Compressed data not available",
        content |-> None]
  ELSE [op |-> "download_compressed_file", out |-> "200",
        content |-> Some(B64Decode(Get(Get(r).compressed_data)))]

\* ------------------------------------------------------ archive activities
\* gzip.compress and the DEFLATE of a ZIP entry with their inverses: lossless at
\* every compression_level, and the compressed bytes are not the plain bytes.
GzipCompress(bytes) == [gzip |-> bytes]
GzipDecompress(blob) == blob.gzip
Deflate(bytes) == [deflated |-> bytes]
Inflate(data) == data.deflated

\* The file at which "for file_item in input.files" stops: the first one whose
\* content base64.b64decode rejects.
FirstUndecodable(fs) ==
  CHOOSE i \in 1..Len(fs) : ~fs[i].ok /\ \A k \in 1..(i - 1) : fs[k].ok

\* ApplicationError(f"Failed to decode file {file_item.name}: {str(e)}")
DecodeError(f) == "Failed to decode file " \o f.name

\* combined_content after the loop of compress_files_tar_gz.
RECURSIVE Combined_mut_no_separator(_)
Combined_mut_no_separator(fs) ==
  IF fs = <<>> THEN ""
  ELSE ("--- " \o fs[1].name \o " ---\n") \o fs[1].bytes
         \o Combined_mut_no_separator(Tail(fs))

RECURSIVE Combined(_)
Combined(fs) ==
  IF fs = <<>> THEN ""
  ELSE ("--- " \o fs[1].name \o " ---\n") \o fs[1].bytes \o "\n\n"
         \o Combined(Tail(fs))

\* compress_files_tar_gz: the blob it returns, or the error it raises.
compress_files_tar_gz(inp) ==
  IF AllDecodable(inp.files)
  THEN [op |-> "compress_files_tar_gz", out |-> "returned",
        content |-> Some(GzipCompress(Combined(inp.files)))]
  ELSE [op |-> "compress_files_tar_gz",
        out |-> DecodeError(inp.files[FirstUndecodable(inp.files)]),
        content |-> None]

\* The archive after the writestr calls of compress_files_zip: one entry per call,
\* in call order, whatever names are in the archive already.
ZipEntries(fs) ==
  [i \in 1..Len(fs) |-> [name |-> fs[i].name, data |-> Deflate(fs[i].bytes)]]

\* compress_files_zip: the archive it returns, or the error it raises.
compress_files_zip(inp) ==
  IF AllDecodable(inp.files)
  THEN [op |-> "compress_files_zip", out |-> "returned",
        content |-> Some([entries |-> ZipEntries(inp.files)])]
  ELSE [op |-> "compress_files_zip",
        out |-> DecodeError(inp.files[FirstUndecodable(inp.files)]),
        content |-> None]

\* ------------------------------------------------------- submission route
\* create_compression_job_route on a store without the row, at time t: the answer
\* and the row as the handler's session holds it when the handler ends.  The rows
\* of add_files_to_job are not kept.
create_compression_job_route_mut_leaves_pending(inp, use_temporal, started, t) ==
  IF ~use_temporal
  THEN [rec |-> None,
        resp |-> [op |-> "create_compression_job_route",
                  out |-> "503 Temporal workflows are disabled", content |-> None]]
  ELSE IF inp.files = <<>>
  THEN [rec |-> None,
        resp |-> [op |-> "create_compression_job_route",
                  out |-> "400 No files provided", content |-> None]]
  ELSE IF ~started
  THEN [rec |-> Some(NewJob(inp)),
        resp |-> [op |-> "create_compression_job_route",
                  out |-> "500 Failed to start compression workflow",
                  content |-> None]]
  ELSE [rec |-> Some(NewJob(inp)),
        resp |-> [op |-> "create_compression_job_route", out |-> "200",
                  content |-> Some(NewJob(inp))]]

create_compression_job_route(inp, use_temporal, started, t) ==
  IF ~use_temporal
  THEN [rec |-> None,
        resp |-> [op |-> "create_compression_job_route",
                  out |-> "503 Temporal workflows are disabled", content |-> None]]
  ELSE IF inp.files = <<>>
  THEN [rec |-> None,
        resp |-> [op |-> "create_compression_job_route",
                  out |-> "400 No files provided", content |-> None]]
  ELSE IF ~started
  THEN [rec |-> UpdateRow(Some(NewJob(inp)), 0, "failed",
                          Some("Failed to start workflow"), t),
        resp |-> [op |-> "create_compression_job_route",
                  out |-> "500 Failed to start compression workflow",
                  content |-> None]]
  ELSE [rec |-> Some(NewJob(inp)),
        resp |-> [op |-> "create_compression_job_route", out |-> "200",
                  content |-> Some(NewJob(inp))]]

\* ---------------------------------------------------------------- state
VARIABLES
  input,           \* the CompressionJobInput of the run
  rec,             \* the job's row in the store: None or Some(CompressionJob)
  now,             \* datetime.utcnow() of the next store write
  pc,              \* where run is suspended
  cur,             \* status of the progress report in flight, or "none"
  attempt,         \* attempt number of the activity in flight
  emitted,         \* the ProgressUpdates run has handed to execute_activity
  original_size,   \* run's local original_size
  compressed_data, \* run's local compressed_data (the archive activity's result)
  archiveInvoked,  \* archive activities run has called
  archiveAttempts, \* attempts of the archive activity started so far
  archiveFailed,   \* the latest archive attempt failed
  result,          \* the CompressionJobResult run returned
  origError,       \* the exception caught at "except Exception as e"
  wfError,         \* the exception run raised to its caller
  timeouts,        \* activity attempts that timed out so far
  cancelled,       \* the workflow's cancellation was requested
  anyFail,         \* some activity attempt failed or was cancelled
  storeFailed      \* some progress report could not reach the store

\* CouchbaseClient
VARIABLES
  config,                \* _config is present
  initialized,           \* _initialized
  connected,             \* _connected
  cluster,               \* _cluster: None or Some(handle)
  connection_task,       \* _connection_task: the task created last, 0 for None
  last_connection_error, \* _last_connection_error
  last_error_log_time,   \* _last_error_log_time
  clock,                 \* time.time()
  loops,                 \* the _connection_retry_loop tasks created so far
  waiter,                \* a caller of get_cluster: "idle" or "waiting"
  ret,                   \* what the latest call of the client returned or raised
  initCalled,            \* initialize has returned normally at least once
  lastAttempt,           \* outcome and error of the latest _create_cluster call
  warnings               \* times of the latest two logger.warning calls

\* The callers of the record store, of the routes and of the archive activities
VARIABLES
  resp                   \* what the latest of these calls returned or raised

wf == <<input, rec, now, pc, cur, attempt, emitted, original_size, compressed_data,
        archiveInvoked, archiveAttempts, archiveFailed, result, origError, wfError,
        timeouts, cancelled, anyFail, storeFailed>>

fields == <<cluster, config, initialized, connected, connection_task,
            last_connection_error, last_error_log_time>>

conn == <<fields, clock, loops, waiter, ret, initCalled, lastAttempt, warnings>>

vars == <<wf, conn, resp>>

env == <<timeouts, cancelled, anyFail, storeFailed>>
locals == <<original_size, compressed_data, archiveInvoked, archiveAttempts,
            archiveFailed, result, origError, wfError>>

\* ---------------------------------------------------- connection manager
\* "if current_time - self._last_error_log_time >= 10"
LogInterval == 10
\* "await asyncio.sleep(1)"
Backoff == 1
\* time.time() at the first failed attempt: any time that is at least LogInterval
\* past the epoch.
StartTime == LogInterval
Horizon == StartTime + MaxTicks
Errors == {"timeout", "auth"}
LoopIds == 1..MaxLoops

\* CouchbaseClient.__init__ (but for _config, the argument).
Constructed ==
  /\ cluster = None
  /\ initialized = FALSE
  /\ connected = FALSE
  /\ connection_task = 0
  /\ last_connection_error = None
  /\ last_error_log_time = 0
  /\ clock = StartTime
  /\ loops = [l \in LoopIds |-> [pc |-> "none", wake |-> 0]]
  /\ waiter = "idle"
  /\ ret = [op |-> "__init__", value |-> "None"]
  /\ initCalled = FALSE
  /\ lastAttempt = [outcome |-> "none", error |-> None]
  /\ warnings = <<>>

\* No call on the store has returned yet.
NoCall == [op |-> "none", out |-> "none", content |-> None]

\* The route creates the row (status pending) and starts the workflow; the row is
\* visible to the activity's own connection or not yet.
Init ==
  /\ input \in CompressionJobInput
  /\ rec \in {None, Some(NewJob(input))}
  /\ now = 1
  /\ pc = "start"
  /\ cur = "none"
  /\ attempt = 0
  /\ emitted = <<>>
  /\ original_size = None
  /\ compressed_data = None
  /\ archiveInvoked = {}
  /\ archiveAttempts = 0
  /\ archiveFailed = FALSE
  /\ result = None
  /\ origError = None
  /\ wfError = None
  /\ timeouts = 0
  /\ cancelled = FALSE
  /\ anyFail = FALSE
  /\ storeFailed = FALSE
  /\ config = TRUE
  /\ Constructed
  /\ resp = NoCall

\* ------------------------------------------------------- workflow steps
\* await workflow.execute_activity(update_job_progress, ProgressUpdate(...)):
\* the call is handed to the activity layer and run suspends.
Schedule(status, e) ==
  /\ pc' = "await_report"
  /\ cur' = status
  /\ attempt' = 1
  /\ emitted' = Append(emitted, ProgressUpdate(status, e))

\* "except Exception as e": the failed report is issued.
EnterHandler(e) ==
  /\ origError' = Some(e)
  /\ Schedule("failed", e)

\* The code of run between the return of the report with status s and the next
\* suspend point.
Resume(s) ==
  CASE s = "starting" ->
         /\ original_size' = Some(SumSizes(input.files))
         /\ Schedule("preparing", "")
         /\ UNCHANGED <<compressed_data, archiveInvoked, archiveAttempts, archiveFailed,
                        result, origError, wfError>>
    [] s = "preparing" ->
         /\ pc' = "sleep"
         /\ cur' = "none"
         /\ attempt' = 0
         /\ UNCHANGED <<emitted, locals>>
    [] s = "compressing" ->
         IF Dispatch(input.compression_format) # "unsupported"
         THEN /\ pc' = "await_archive"
              /\ cur' = "none"
              /\ attempt' = 1
              /\ archiveInvoked' = archiveInvoked \cup {Dispatch(input.compression_format)}
              /\ archiveAttempts' = 1
              /\ UNCHANGED <<emitted, original_size, compressed_data, archiveFailed,
                             result, origError, wfError>>
         ELSE /\ EnterHandler("unsupported_format")
              /\ UNCHANGED <<original_size, compressed_data, archiveInvoked,
                             archiveAttempts, archiveFailed, result, wfError>>
    [] s = "finalizing" ->
         /\ Schedule("completed", "")
         /\ UNCHANGED locals
    [] s = "completed" ->
         /\ pc' = "done"
         /\ cur' = "none"
         /\ attempt' = 0
         /\ result' = Some([compressed_data |-> Get(compressed_data),
                            original_size |-> Get(original_size),
                            compressed_size |-> Get(compressed_data).size,
                            compression_ratio |->
                              CompressionRatio(Get(original_size), Get(compressed_data).size),
                            status |-> "completed"])
         /\ UNCHANGED <<emitted, original_size, compressed_data, archiveInvoked,
                        archiveAttempts, archiveFailed, origError, wfError>>
    [] s = "failed" ->
         /\ pc' = "raised"
         /\ cur' = "none"
         /\ attempt' = 0
         /\ wfError' = origError
         /\ UNCHANGED <<emitted, original_size, compressed_data, archiveInvoked,
                        archiveAttempts, archiveFailed, result, origError>>

\* The row after update_job_progress ran its session block to the end.
Written(r, status, e) ==
  UpdateRow(r, ProgressUpdate(status, e).progress, status,
            ProgressUpdate(status, e).message, now)

ErrOf == IF IsSome(origError) THEN Get(origError) ELSE ""

\* run starts: the first report is issued.
Start ==
  /\ UNCHANGED <<conn, resp>>
  /\ pc = "start"
  /\ Schedule("starting", "")
  /\ UNCHANGED <<input, rec, now, locals, env>>

\* The request that created the row ends and its session commits: the row becomes
\* visible to the other connections.  create_compression_job only flushes ("without
\* committing") and the handler starts the workflow with the session still open.
RouteCommits ==
  /\ UNCHANGED <<conn, resp>>
  /\ rec = None
  /\ rec' = Some(NewJob(input))
  /\ UNCHANGED <<input, now, pc, cur, attempt, emitted, locals, env>>

\* update_job_progress reaches the store, updates the row (a missing row is left
\* alone) and returns; run goes on to its next suspend point.
ReportApplied ==
  /\ UNCHANGED <<conn, resp>>
  /\ pc = "await_report"
  /\ rec' = Written(rec, cur, ErrOf)
  /\ now' = now + 1
  /\ Resume(cur)
  /\ UNCHANGED <<input, env>>

\* update_job_progress cannot reach the store: "except Exception" logs and
\* returns normally.
ReportStoreFails_mut_propagate ==
  /\ UNCHANGED <<conn, resp>>
  /\ pc = "await_report"
  /\ attempt' = Min(attempt + 1, MaxTimeouts + 2)
  /\ storeFailed' = TRUE
  /\ anyFail' = TRUE
  /\ UNCHANGED <<input, rec, now, pc, cur, emitted, locals, timeouts, cancelled>>

ReportStoreFails ==
  /\ UNCHANGED <<conn, resp>>
  /\ pc = "await_report"
  /\ storeFailed' = TRUE
  /\ Resume(cur)
  /\ UNCHANGED <<input, rec, now, timeouts, cancelled, anyFail>>

\* The report attempt exceeds start_to_close_timeout (10 s), before or after its
\* write reached the store; the activity layer starts the next attempt.
ReportTimeout ==
  /\ UNCHANGED <<conn, resp>>
  /\ pc = "await_report"
  /\ timeouts < MaxTimeouts
  /\ \E wrote \in BOOLEAN :
       /\ rec' = IF wrote THEN Written(rec, cur, ErrOf) ELSE rec
       /\ now' = IF wrote THEN now + 1 ELSE now
  /\ timeouts' = timeouts + 1
  /\ attempt' = attempt + 1
  /\ anyFail' = TRUE
  /\ UNCHANGED <<input, pc, cur, emitted, locals, cancelled, storeFailed>>

\* await workflow.sleep(1) returns; the compressing report is issued.
SleepDone ==
  /\ UNCHANGED <<conn, resp>>
  /\ pc = "sleep"
  /\ Schedule("compressing", "")
  /\ UNCHANGED <<input, rec, now, locals, env>>

\* ------------------------------------------------------ archive activity
\* compress_files_zip / compress_files_tar_gz over files that all decode: the
\* activity returns the whole archive.  The byte length of the deflate output is
\* not computed; it is any of ArchiveSizes.
ArchiveOutcome(fs) == IF AllDecodable(fs) THEN "returns" ELSE "raises"

ArchiveReturns ==
  /\ UNCHANGED <<conn, resp>>
  /\ pc = "await_archive"
  /\ ArchiveOutcome(input.files) = "returns"
  /\ \E n \in ArchiveSizes :
       compressed_data' = Some([format |-> Dispatch(input.compression_format),
                                entries |-> input.files,
                                whole |-> AllDecodable(input.files),
                                size |-> n])
  /\ archiveFailed' = FALSE
  /\ Schedule("finalizing", "")
  /\ UNCHANGED <<input, rec, now, original_size, archiveInvoked, archiveAttempts,
                 result, origError, wfError, env>>

\* A file does not decode: the activity raises ApplicationError (retryable: no
\* non_retryable flag), and the call has no retry_policy, so the attempt is
\* scheduled again after the retry interval.
ArchiveDecodeFails ==
  /\ UNCHANGED <<conn, resp>>
  /\ pc = "await_archive"
  /\ ArchiveOutcome(input.files) = "raises"
  /\ pc' = "archive_backoff"
  /\ archiveFailed' = TRUE
  /\ anyFail' = TRUE
  /\ UNCHANGED <<input, rec, now, cur, attempt, emitted, original_size, compressed_data,
                 archiveInvoked, archiveAttempts, result, origError, wfError,
                 timeouts, cancelled, storeFailed>>

\* The archive attempt exceeds start_to_close_timeout (300 s).
ArchiveTimeout ==
  /\ UNCHANGED <<conn, resp>>
  /\ pc = "await_archive"
  /\ timeouts < MaxTimeouts
  /\ timeouts' = timeouts + 1
  /\ pc' = "archive_backoff"
  /\ archiveFailed' = TRUE
  /\ anyFail' = TRUE
  /\ UNCHANGED <<input, rec, now, cur, attempt, emitted, original_size, compressed_data,
                 archiveInvoked, archiveAttempts, result, origError, wfError,
                 cancelled, storeFailed>>

\* The activity layer starts the next attempt of the archive activity.
ArchiveRetry ==
  /\ UNCHANGED <<conn, resp>>
  /\ pc = "archive_backoff"
  /\ pc' = "await_archive"
  /\ attempt' = Min(attempt + 1, MaxArchiveAttempts)
  /\ archiveAttempts' = Min(archiveAttempts + 1, MaxArchiveAttempts)
  /\ UNCHANGED <<input, rec, now, cur, emitted, original_size, compressed_data,
                 archiveInvoked, archiveFailed, result, origError, wfError, env>>

\* ---------------------------------------------------------- cancellation
\* The workflow is cancelled while run awaits an activity inside the try block:
\* the await raises ActivityError, an Exception, and the handler runs.  A report
\* in flight has written its row or not.
CancelInActivity ==
  /\ UNCHANGED <<conn, resp>>
  /\ ~cancelled
  /\ \/ pc = "await_report" /\ cur # "failed"
     \/ pc \in {"await_archive", "archive_backoff"}
  /\ cancelled' = TRUE
  /\ anyFail' = TRUE
  /\ \E wrote \in BOOLEAN :
       /\ wrote => pc = "await_report"
       /\ rec' = IF wrote THEN Written(rec, cur, ErrOf) ELSE rec
       /\ now' = IF wrote THEN now + 1 ELSE now
  /\ EnterHandler("activity_cancelled")
  /\ UNCHANGED <<input, original_size, compressed_data, archiveInvoked, archiveAttempts,
                 archiveFailed, result, wfError, timeouts, storeFailed>>

\* The workflow is cancelled while the handler awaits the failed report: the
\* await is not guarded, its ActivityError leaves run and line 284 is not reached.
CancelInHandler ==
  /\ UNCHANGED <<conn, resp>>
  /\ ~cancelled
  /\ pc = "await_report" /\ cur = "failed"
  /\ cancelled' = TRUE
  /\ anyFail' = TRUE
  /\ \E wrote \in BOOLEAN :
       /\ rec' = IF wrote THEN Written(rec, cur, ErrOf) ELSE rec
       /\ now' = IF wrote THEN now + 1 ELSE now
  /\ pc' = "raised"
  /\ cur' = "none"
  /\ attempt' = 0
  /\ wfError' = Some("report_cancelled")
  /\ UNCHANGED <<input, emitted, original_size, compressed_data, archiveInvoked,
                 archiveAttempts, archiveFailed, result, origError, timeouts, storeFailed>>

\* The workflow is cancelled during workflow.sleep: asyncio.CancelledError is not an
\* Exception, "except Exception" does not catch it and no failed report is issued.
CancelInSleep ==
  /\ UNCHANGED <<conn, resp>>
  /\ ~cancelled
  /\ pc = "sleep"
  /\ cancelled' = TRUE
  /\ anyFail' = TRUE
  /\ pc' = "cancelled"
  /\ wfError' = Some("cancelled")
  /\ UNCHANGED <<input, rec, now, cur, attempt, emitted, original_size, compressed_data,
                 archiveInvoked, archiveAttempts, archiveFailed, result, origError,
                 timeouts, storeFailed>>

Next ==
  \/ Start
  \/ RouteCommits
  \/ ReportApplied
  \/ ReportStoreFails
  \/ ReportTimeout
  \/ SleepDone
  \/ ArchiveReturns
  \/ ArchiveDecodeFails
  \/ ArchiveTimeout
  \/ ArchiveRetry
  \/ CancelInActivity
  \/ CancelInHandler
  \/ CancelInSleep

Spec == Init /\ [][Next]_vars

\* The activity layer keeps scheduling: a report that can reach the store is
\* eventually applied, the timer fires, an archive attempt ends and a failed one is
\* started again.  Cancellation, timeouts and store outages are not forced.
FairSpec ==
  /\ Spec
  /\ WF_vars(Start)
  /\ WF_vars(ReportApplied)
  /\ WF_vars(SleepDone)
  /\ WF_vars(ArchiveReturns)
  /\ WF_vars(ArchiveDecodeFails)
  /\ WF_vars(ArchiveRetry)

\* ------------------------------------------- connection manager: calls
Returned(op, v) == [op |-> op, raised |-> "", value |-> v]
Raised(op, e) == [op |-> op, raised |-> e, value |-> None]

\* initialize(): ValueError without a configuration, else _initialized = True.
Initialize_mut_connects ==
  /\ UNCHANGED <<wf, resp>>
  /\ IF ~config
     THEN /\ ret' = Raised("initialize", "ValueError")
          /\ UNCHANGED <<fields, clock, loops, waiter, initCalled, lastAttempt, warnings>>
     ELSE /\ initialized' = TRUE
          /\ connected' = TRUE
          /\ initCalled' = TRUE
          /\ ret' = Returned("initialize", None)
          /\ UNCHANGED <<cluster, config, connection_task, last_connection_error,
                         last_error_log_time, clock, loops, waiter, lastAttempt, warnings>>

Initialize ==
  /\ UNCHANGED <<wf, resp>>
  /\ IF ~config
     THEN /\ ret' = Raised("initialize", "ValueError")
          /\ UNCHANGED <<fields, clock, loops, waiter, initCalled, lastAttempt, warnings>>
     ELSE /\ initialized' = TRUE
          /\ initCalled' = TRUE
          /\ ret' = Returned("initialize", None)
          /\ UNCHANGED <<cluster, config, connected, connection_task, last_connection_error,
                         last_error_log_time, clock, loops, waiter, lastAttempt, warnings>>

Active(l) == loops[l].pc \in {"run", "sleep"}
Created(l) == loops[l].pc # "none"
NextLoop == CHOOSE l \in LoopIds : ~Created(l) /\ \A k \in LoopIds : k < l => Created(k)

\* init_connection(): returns at once when not initialized; otherwise
\* asyncio.create_task(self._connection_retry_loop()), whatever task exists.
InitConnection ==
  /\ UNCHANGED <<wf, resp>>
  /\ initialized => \E l \in LoopIds : ~Created(l)
  /\ IF ~initialized
     THEN UNCHANGED <<connection_task, loops>>
     ELSE /\ loops' = [loops EXCEPT ![NextLoop] = [pc |-> "run", wake |-> 0]]
          /\ connection_task' = NextLoop
  /\ ret' = Returned("init_connection", None)
  /\ UNCHANGED <<cluster, config, initialized, connected, last_connection_error,
                 last_error_log_time, clock, waiter, initCalled, lastAttempt, warnings>>

\* _connection_retry_loop, "while not self._connected" holds and _create_cluster
\* returns: the handle is stored, _connected set, break.
LoopAttemptSucceeds_mut_no_test(l) ==
  /\ UNCHANGED <<wf, resp>>
  /\ loops[l].pc = "run"
  /\ cluster' = Some(l)
  /\ connected' = TRUE
  /\ loops' = [loops EXCEPT ![l] = [pc |-> "done", wake |-> 0]]
  /\ lastAttempt' = [outcome |-> "ok", error |-> None]
  /\ UNCHANGED <<config, initialized, connection_task, last_connection_error,
                 last_error_log_time, clock, waiter, ret, initCalled, warnings>>

LoopAttemptSucceeds(l) ==
  /\ UNCHANGED <<wf, resp>>
  /\ loops[l].pc = "run"
  /\ ~connected
  /\ cluster' = Some(l)
  /\ connected' = TRUE
  /\ loops' = [loops EXCEPT ![l] = [pc |-> "done", wake |-> 0]]
  /\ lastAttempt' = [outcome |-> "ok", error |-> None]
  /\ UNCHANGED <<config, initialized, connection_task, last_connection_error,
                 last_error_log_time, clock, waiter, ret, initCalled, warnings>>

Last2(seq) == IF Len(seq) > 2 THEN SubSeq(seq, Len(seq) - 1, Len(seq)) ELSE seq

\* _connection_retry_loop, _create_cluster raises e: the error is kept, a warning
\* is logged if the last one is LogInterval old, and the loop sleeps Backoff.
LoopAttemptFails_mut_gives_up(l, e) ==
  /\ UNCHANGED <<wf, resp>>
  /\ loops[l].pc = "run"
  /\ ~connected
  /\ last_connection_error' = Some(e)
  /\ lastAttempt' = [outcome |-> "failed", error |-> Some(e)]
  /\ UNCHANGED <<warnings, last_error_log_time>>
  /\ loops' = [loops EXCEPT ![l] = [pc |-> "done", wake |-> 0]]
  /\ UNCHANGED <<cluster, config, initialized, connected, connection_task, clock,
                 waiter, ret, initCalled>>

LoopAttemptFails_mut_no_stamp(l, e) ==
  /\ UNCHANGED <<wf, resp>>
  /\ loops[l].pc = "run"
  /\ ~connected
  /\ last_connection_error' = Some(e)
  /\ lastAttempt' = [outcome |-> "failed", error |-> Some(e)]
  /\ IF clock - last_error_log_time >= LogInterval
     THEN /\ warnings' = Last2(Append(warnings, clock))
          /\ UNCHANGED last_error_log_time
     ELSE UNCHANGED <<warnings, last_error_log_time>>
  /\ loops' = [loops EXCEPT ![l] = [pc |-> "sleep", wake |-> Backoff]]
  /\ UNCHANGED <<cluster, config, initialized, connected, connection_task, clock,
                 waiter, ret, initCalled>>

LoopAttemptFails(l, e) ==
  /\ UNCHANGED <<wf, resp>>
  /\ loops[l].pc = "run"
  /\ ~connected
  /\ last_connection_error' = Some(e)
  /\ lastAttempt' = [outcome |-> "failed", error |-> Some(e)]
  /\ IF clock - last_error_log_time >= LogInterval
     THEN /\ warnings' = Last2(Append(warnings, clock))
          /\ last_error_log_time' = clock
     ELSE UNCHANGED <<warnings, last_error_log_time>>
  /\ loops' = [loops EXCEPT ![l] = [pc |-> "sleep", wake |-> Backoff]]
  /\ UNCHANGED <<cluster, config, initialized, connected, connection_task, clock,
                 waiter, ret, initCalled>>

\* asyncio.sleep(1) is over: back to the test of the while.
LoopWakes(l) ==
  /\ UNCHANGED <<wf, resp>>
  /\ loops[l].pc = "sleep"
  /\ loops[l].wake = 0
  /\ loops' = [loops EXCEPT ![l] = [pc |-> "run", wake |-> 0]]
  /\ UNCHANGED <<fields, clock, waiter, ret, initCalled, lastAttempt, warnings>>

\* "while not self._connected" is false: the loop ends without an attempt.
LoopExits(l) ==
  /\ UNCHANGED <<wf, resp>>
  /\ loops[l].pc = "run"
  /\ connected
  /\ loops' = [loops EXCEPT ![l] = [pc |-> "done", wake |-> 0]]
  /\ UNCHANGED <<fields, clock, waiter, ret, initCalled, lastAttempt, warnings>>

\* close(): only with a handle, and then _cluster and _initialized are reset;
\* _connected and the task are left as they are.
Close ==
  /\ UNCHANGED <<wf, resp>>
  /\ IF IsSome(cluster)
     THEN cluster' = None /\ initialized' = FALSE
     ELSE UNCHANGED <<cluster, initialized>>
  /\ ret' = Returned("close", None)
  /\ UNCHANGED <<config, connected, connection_task, last_connection_error,
                 last_error_log_time, clock, loops, waiter, initCalled, lastAttempt,
                 warnings>>

\* health_check(): the dict it returns.
health_check_mut_no_init_test ==
  IF ~connected
  THEN [connected |-> FALSE, status |-> "connecting", last_error |-> last_connection_error]
  ELSE [connected |-> TRUE, status |-> "healthy"]

health_check ==
  IF ~initialized
  THEN [connected |-> FALSE, status |-> "not_initialized"]
  ELSE IF ~connected
  THEN [connected |-> FALSE, status |-> "connecting", last_error |-> last_connection_error]
  ELSE [connected |-> TRUE, status |-> "healthy"]

\* A call of health_check, as _check_all_services makes it.
HealthCheck_mut_awaits ==
  /\ UNCHANGED <<wf, resp>>
  /\ initialized => connected
  /\ ret' = Returned("health_check", Some(health_check))
  /\ UNCHANGED <<fields, clock, loops, waiter, initCalled, lastAttempt, warnings>>

HealthCheck ==
  /\ UNCHANGED <<wf, resp>>
  /\ ret' = Returned("health_check", Some(health_check))
  /\ UNCHANGED <<fields, clock, loops, waiter, initCalled, lastAttempt, warnings>>

\* get_cluster(): _ensure_initialized raises RuntimeError, or the caller enters
\* "while not self._connected: await asyncio.sleep(0.1)".
GetClusterCall ==
  /\ UNCHANGED <<wf, resp>>
  /\ waiter = "idle"
  /\ IF ~initialized
     THEN ret' = Raised("get_cluster", "RuntimeError") /\ UNCHANGED waiter
     ELSE waiter' = "waiting" /\ UNCHANGED ret
  /\ UNCHANGED <<fields, clock, loops, initCalled, lastAttempt, warnings>>

\* The test of the while in _ensure_connected fails: get_cluster returns _cluster.
GetClusterReturns_mut_no_wait ==
  /\ UNCHANGED <<wf, resp>>
  /\ waiter = "waiting"
  /\ waiter' = "idle"
  /\ ret' = Returned("get_cluster", Some(cluster))
  /\ UNCHANGED <<fields, clock, loops, initCalled, lastAttempt, warnings>>

GetClusterReturns ==
  /\ UNCHANGED <<wf, resp>>
  /\ waiter = "waiting"
  /\ connected
  /\ waiter' = "idle"
  /\ ret' = Returned("get_cluster", Some(cluster))
  /\ UNCHANGED <<fields, clock, loops, initCalled, lastAttempt, warnings>>

\* Time passes, by one unit: every sleep has one unit less to go. The clock stops
\* at Horizon, the sleeps do not. The only reader of the clock is the handler of a
\* failed attempt (time.time() of line 112), and the first failed attempt always
\* warns, _last_error_log_time being 0 until then: the time before it shifts every
\* later reading alike, and is left out.
Tick ==
  /\ UNCHANGED <<wf, resp>>
  /\ IsSome(last_connection_error)
  /\ \/ clock < Horizon
     \/ \E l \in LoopIds : loops[l].pc = "sleep" /\ loops[l].wake > 0
  /\ clock' = Min(clock + 1, Horizon)
  /\ loops' = [l \in LoopIds |->
                IF loops[l].pc = "sleep" /\ loops[l].wake > 0
                THEN [loops[l] EXCEPT !.wake = @ - 1]
                ELSE loops[l]]
  /\ UNCHANGED <<fields, waiter, ret, initCalled, lastAttempt, warnings>>

\* The workflow has not been started.
WorkflowIdle ==
  /\ input = [files |-> <<[name |-> "a.txt", ok |-> TRUE, bytes |-> "ABC", length |-> 3, size |-> 3]>>,
              compression_format |-> "zip"]
  /\ rec = None
  /\ now = 1
  /\ pc = "start"
  /\ cur = "none"
  /\ attempt = 0
  /\ emitted = <<>>
  /\ original_size = None
  /\ compressed_data = None
  /\ archiveInvoked = {}
  /\ archiveAttempts = 0
  /\ archiveFailed = FALSE
  /\ result = None
  /\ origError = None
  /\ wfError = None
  /\ timeouts = 0
  /\ cancelled = FALSE
  /\ anyFail = FALSE
  /\ storeFailed = FALSE

InitConn ==
  /\ WorkflowIdle
  /\ config \in BOOLEAN
  /\ Constructed
  /\ resp = NoCall

NextConn ==
  \/ Initialize
  \/ InitConnection
  \/ \E l \in LoopIds : LoopAttemptSucceeds(l)
  \/ \E l \in LoopIds : \E e \in Errors : LoopAttemptFails(l, e)
  \/ \E l \in LoopIds : LoopWakes(l)
  \/ \E l \in LoopIds : LoopExits(l)
  \/ Close
  \/ HealthCheck
  \/ GetClusterCall
  \/ GetClusterReturns
  \/ Tick

SpecConn == InitConn /\ [][NextConn]_vars

\* The event loop runs every task that is ready and time passes; connection
\* attempts that keep being made succeed in the end.
FairConn ==
  /\ SpecConn
  /\ WF_vars(Tick)
  /\ WF_vars(\E l \in LoopIds : LoopWakes(l))
  /\ WF_vars(\E l \in LoopIds : LoopExits(l))
  /\ SF_vars(\E l \in LoopIds : LoopAttemptSucceeds(l))

\* ----------------------------------------------------------- record store
\* The functions of db/models.py and the download route, called with any
\* arguments on the one row of the job.
StoreProgress == {0, 50}
StoreStatuses == {"starting", "compressing", "completed", "failed"}
StoreMessages == {None, Some("m")}
StoreArchive ==
  [format |-> "compress_files_zip",
   entries |-> <<[name |-> "a.txt", ok |-> TRUE, bytes |-> "ABC", length |-> 3, size |-> 3]>>,
   whole |-> TRUE, size |-> 4]

wfRest == <<input, pc, cur, attempt, emitted, locals, env>>

\* create_compression_job: session.add and flush.
StoreCreate ==
  /\ rec = None
  /\ rec' = Some(NewJob(input))
  /\ resp' = [op |-> "create_compression_job", out |-> "job", content |-> None]
  /\ UNCHANGED <<now, wfRest, conn>>

\* update_compression_job_progress(session, job_id, progress, status, message)
StoreUpdate(progress, status, message) ==
  /\ now <= MaxWrites
  /\ rec' = UpdateRow(rec, progress, status, message, now)
  /\ now' = now + 1
  /\ resp' = [op |-> "update_compression_job_progress",
              out |-> IF IsSome(rec') THEN "job" ELSE "None", content |-> None]
  /\ UNCHANGED <<wfRest, conn>>

\* complete_compression_job(session, job_id, compressed_size, compression_ratio,
\* compressed_data)
StoreComplete ==
  /\ now <= MaxWrites
  /\ rec' = CompleteRow(rec, StoreArchive.size,
                        CompressionRatio(SumSizes(input.files), StoreArchive.size),
                        B64Encode(StoreArchive), now)
  /\ now' = now + 1
  /\ resp' = [op |-> "complete_compression_job",
              out |-> IF IsSome(rec') THEN "job" ELSE "None", content |-> None]
  /\ UNCHANGED <<wfRest, conn>>

\* GET /compression/jobs/{job_id}/download
Download ==
  /\ resp' = download_compressed_file(rec)
  /\ UNCHANGED <<rec, now, wfRest, conn>>

\* POST /compression/jobs on a store without the row: Temporal is enabled or not,
\* start_workflow returns or raises.
CreateJobRoute ==
  /\ rec = None
  /\ now <= MaxWrites
  /\ \E use_temporal \in BOOLEAN : \E started \in BOOLEAN :
       /\ rec' = create_compression_job_route(input, use_temporal, started, now).rec
       /\ resp' = create_compression_job_route(input, use_temporal, started, now).resp
       /\ now' = IF use_temporal /\ ~started THEN now + 1 ELSE now
  /\ UNCHANGED <<wfRest, conn>>

InitStore ==
  /\ WorkflowIdle
  /\ config = TRUE
  /\ Constructed
  /\ resp = NoCall

NextStore ==
  \/ StoreCreate
  \/ \E p \in StoreProgress : \E st \in StoreStatuses : \E m \in StoreMessages :
       StoreUpdate(p, st, m)
  \/ StoreComplete
  \/ Download
  \/ CreateJobRoute

SpecStore == InitStore /\ [][NextStore]_vars

\* ------------------------------------------------- archive activities: calls
\* The two archive activities, called on any job input.
RunNotStarted ==
  /\ rec = None
  /\ now = 1
  /\ pc = "start"
  /\ cur = "none"
  /\ attempt = 0
  /\ emitted = <<>>
  /\ original_size = None
  /\ compressed_data = None
  /\ archiveInvoked = {}
  /\ archiveAttempts = 0
  /\ archiveFailed = FALSE
  /\ result = None
  /\ origError = None
  /\ wfError = None
  /\ timeouts = 0
  /\ cancelled = FALSE
  /\ anyFail = FALSE
  /\ storeFailed = FALSE

CompressZip ==
  /\ resp' = compress_files_zip(input)
  /\ UNCHANGED <<rec, now, wfRest, conn>>

CompressTarGz ==
  /\ resp' = compress_files_tar_gz(input)
  /\ UNCHANGED <<rec, now, wfRest, conn>>

InitArchive ==
  /\ input \in CompressionJobInput
  /\ RunNotStarted
  /\ config = TRUE
  /\ Constructed
  /\ resp = NoCall

NextArchive ==
  \/ CompressZip
  \/ CompressTarGz

SpecArchive == InitArchive /\ [][NextArchive]_vars

\* ================================================================ claims
SupportedFormats == {"zip", "ZIP", "tar_gz", "Tar_Gz"}
Terminal == {"completed", "failed"}
HappyStatuses == <<"starting", "preparing", "compressing", "finalizing", "completed">>
HappyProgress == <<0, 25, 50, 90, 100>>

StatusesOf(seq) == [i \in 1..Len(seq) |-> seq[i].status]
ProgressesOf(seq) == [i \in 1..Len(seq) |-> seq[i].progress]
IsPrefix(a, b) == Len(a) <= Len(b) /\ \A i \in 1..Len(a) : a[i] = b[i]
IsNotFailed(r) == r.status # "failed"
IsFailedReport(r) == r.status = "failed"
NonFailed(seq) == SelectSeq(seq, IsNotFailed)
FailedReports(seq) == SelectSeq(seq, IsFailedReport)

RecStatus == IF IsSome(rec) THEN Get(rec).status ELSE "absent"
RecHasMessage == IsSome(rec) /\ IsSome(Get(rec).message)

WellFormed ==
  /\ Len(input.files) >= 1
  /\ input.compression_format \in SupportedFormats
  /\ AllDecodable(input.files)

\* C1: for a well-formed job and no activity failure, run issues exactly the
\* reports starting, preparing, compressing, finalizing, completed with progress
\* 0, 25, 50, 90, 100, in that order, no failed report, and then returns a result
\* with status completed.
C1_HappyPathReports ==
  /\ (WellFormed /\ ~anyFail) =>
       /\ IsPrefix(StatusesOf(emitted), HappyStatuses)
       /\ IsPrefix(ProgressesOf(emitted), HappyProgress)
       /\ origError = None /\ wfError = None
       /\ pc \in {"start", "await_report", "sleep", "await_archive", "done"}
  /\ pc = "done" =>
       /\ StatusesOf(emitted) = HappyStatuses
       /\ ProgressesOf(emitted) = HappyProgress
       /\ IsSome(result) /\ Get(result).status = "completed"
  /\ IsSome(result) => pc = "done"

C1_Witness ==
  /\ WellFormed /\ ~anyFail /\ pc = "done"
  /\ Len(emitted) = 5 /\ IsSome(result)

\* C2: after a successful run on an existing record the record is completed with
\* progress 100, original_size the sum of the declared sizes, and compressed_size
\* (> 0), compression_ratio and the compressed payload set; whenever the record is
\* completed, these three fields are set.
C2_CompletedRecordHasResult ==
  /\ (pc = "done" /\ IsSome(rec) /\ ~storeFailed /\ ~anyFail) =>
       /\ Get(rec).status = "completed"
       /\ Get(rec).progress = 100
       /\ Get(rec).original_size = SumSizes(input.files)
       /\ IsSome(Get(rec).compressed_size) /\ Get(Get(rec).compressed_size) > 0
       /\ Get(rec).compression_ratio = Some(Get(result).compression_ratio)
       /\ IsSome(Get(rec).compressed_data)
  /\ (IsSome(rec) /\ Get(rec).status = "completed") =>
       /\ IsSome(Get(rec).compressed_size)
       /\ IsSome(Get(rec).compression_ratio)
       /\ IsSome(Get(rec).compressed_data)

\* C3: once the record's status is completed or failed, no later step changes its
\* status, progress, message or completed_at.
C3_TerminalRecordImmutable ==
  [][(IsSome(rec) /\ Get(rec).status \in Terminal) =>
       /\ IsSome(rec')
       /\ Get(rec').status = Get(rec).status
       /\ Get(rec').progress = Get(rec).progress
       /\ Get(rec').message = Get(rec).message
       /\ Get(rec').completed_at = Get(rec).completed_at]_vars

\* C4: with the store reachable and the row visible, a run that fails (cancellation
\* apart) leads to a record with status failed and a message, and a job whose
\* archive step failed does not stay in a non-terminal status forever.
C4_FailedJobReachesTerminal ==
  /\ (pc = "await_report" /\ cur = "failed" /\ ~cancelled /\ IsSome(rec))
       ~> (storeFailed \/ cancelled \/ (RecStatus = "failed" /\ RecHasMessage))
  /\ (archiveFailed /\ pc \in {"await_archive", "archive_backoff"} /\ IsSome(rec))
       ~> (storeFailed \/ cancelled \/ RecStatus \in Terminal)

\* C5: when run has raised, exactly one failed report was issued and the error
\* raised to the caller is the error the handler caught, whatever became of the
\* failed report.
C5_OriginalErrorSurfaced ==
  pc = "raised" =>
    /\ Len(FailedReports(emitted)) = 1
    /\ IsSome(origError)
    /\ wfError = origError

\* C6 (as stated): for an unsupported format the workflow fails with the
\* unsupported-format error before any activity has been invoked.
C6_NoActivityBeforeFormatError ==
  origError = Some("unsupported_format") =>
    /\ NonFailed(emitted) = <<>>
    /\ archiveInvoked = {}

\* C6 (amended): for an unsupported format the workflow fails with the
\* unsupported-format error before any archive activity is invoked; exactly the
\* reports starting, preparing and compressing precede the failure, and the run
\* never returns a result.
C6_FormatErrorAfterThreeReports ==
  /\ origError = Some("unsupported_format") =>
       /\ input.compression_format \notin SupportedFormats
       /\ StatusesOf(NonFailed(emitted)) = <<"starting", "preparing", "compressing">>
       /\ archiveInvoked = {} /\ archiveAttempts = 0
  /\ input.compression_format \notin SupportedFormats =>
       /\ pc \notin {"await_archive", "archive_backoff", "done"}
       /\ result = None
       /\ (IsSome(origError) /\ ~cancelled) => origError = Some("unsupported_format")

C6_Witness ==
  /\ origError = Some("unsupported_format")
  /\ pc = "raised"
  /\ Len(emitted) = 4

\* C7: for an unsupported format no archive activity is ever invoked and the only
\* statuses reported besides failed are starting, preparing and compressing.
C7_UnsupportedNeverArchives ==
  input.compression_format \notin SupportedFormats =>
    /\ archiveInvoked = {}
    /\ archiveAttempts = 0
    /\ compressed_data = None
    /\ \A i \in 1..Len(emitted) :
         emitted[i].status \in {"starting", "preparing", "compressing", "failed"}

C7_Witness ==
  /\ input.compression_format = "rar"
  /\ wfError = Some("unsupported_format")
  /\ StatusesOf(emitted) = <<"starting", "preparing", "compressing", "failed">>

LastNonFailed == NonFailed(emitted)[Len(NonFailed(emitted))]

\* C8: finalizing and completed are reported only after the archive activity
\* returned a whole archive; when the archive activity has failed, the last status
\* reported besides failed is compressing (progress 50) and the workflow is failing
\* (stated for the failure on undecodable content).
C8_ArchiveFailureFailsWorkflow ==
  /\ \A i \in 1..Len(emitted) :
       emitted[i].status \in {"finalizing", "completed"} =>
         IsSome(compressed_data) /\ Get(compressed_data).whole
  /\ (archiveFailed /\ ~AllDecodable(input.files)) =>
       /\ LastNonFailed.status = "compressing"
       /\ LastNonFailed.progress = 50
       /\ IsSome(origError)

\* C9: an archive activity that raised on undecodable content is attempted exactly
\* once and the workflow fails right after it.
C9_DecodeErrorNotRetried ==
  (~AllDecodable(input.files) /\ archiveAttempts >= 1) =>
    /\ archiveAttempts = 1
    /\ pc # "archive_backoff"
    /\ archiveFailed => IsSome(origError)

\* C10: whatever reports fail to reach the store, update_job_progress returns
\* normally (no attempt of it fails, none is repeated) and a well-formed job that
\* is neither cancelled nor timed out runs the full sequence and returns the
\* completed result.
C10_StoreFailuresSwallowed ==
  (WellFormed /\ timeouts = 0 /\ ~cancelled) =>
    /\ ~anyFail
    /\ attempt <= 1
    /\ origError = None /\ wfError = None
    /\ IsPrefix(StatusesOf(emitted), HappyStatuses)
    /\ pc \in {"start", "await_report", "sleep", "await_archive", "done"}
    /\ pc = "done" => /\ StatusesOf(emitted) = HappyStatuses
                      /\ Get(result).status = "completed"

C10_Witness ==
  /\ WellFormed /\ timeouts = 0 /\ ~cancelled
  /\ storeFailed
  /\ pc = "done" /\ Get(result).status = "completed"
  /\ IsSome(rec) /\ Get(rec).status = "pending"

\* C11: once the workflow is cancelled at a suspend point, run issues no activity
\* but the failed report, and when run has ended with the store reachable the
\* record is not left in a non-terminal status.
C11_CancelledJobReachesTerminal ==
  cancelled =>
    /\ \/ pc = "await_report" /\ cur = "failed"
       \/ pc \in {"raised", "cancelled"}
    /\ (pc \in {"raised", "cancelled"} /\ IsSome(rec) /\ ~storeFailed) =>
         RecStatus \in Terminal

\* C12: the result's compression_ratio is (original_size - compressed_size) /
\* original_size * 100 when original_size > 0 and 0 when original_size = 0; it is
\* negative, not clamped, when compressed_size > original_size.
C12_RatioFormula ==
  pc = "done" =>
    LET o == Get(result).original_size
        c == Get(result).compressed_size
        q == Get(result).compression_ratio
    IN /\ q[2] > 0
       /\ o > 0 => q[1] * o = (o - c) * 100 * q[2]
       /\ o = 0 => q[1] = 0
       /\ (o > 0 /\ c > o) => q[1] < 0

C12_Witness ==
  /\ pc = "done"
  /\ Get(result).original_size > 0
  /\ Get(result).compressed_size > Get(result).original_size
  /\ Get(result).compression_ratio[1] < 0

\* -------------------------------------------- connection manager claims
HealthStatus == health_check.status

C14_HealthCheckNeverBlocks ==
  /\ [](ENABLED HealthCheck)
  /\ [][HealthCheck =>
          /\ ret'.op = "health_check" /\ ret'.raised = ""
          /\ UNCHANGED <<cluster, config, initialized, connected, connection_task,
                         last_connection_error, last_error_log_time, loops, waiter>>]_vars

C14_Witness ==
  /\ \E l \in LoopIds : loops[l].pc = "sleep"
  /\ ~connected
  /\ waiter = "waiting"
  /\ ret.op = "health_check" /\ Get(ret.value).status = "connecting"

\* C15: however often init_connection is called, at most one retry loop is active.
C15_AtMostOneLoop ==
  Cardinality({l \in LoopIds : Active(l)}) <= 1

\* C16: a retry loop ends only when the client is connected; after a failed
\* attempt it sleeps Backoff and runs again; and, connection attempts succeeding in
\* the end, an active loop leads to a connected client.
C16_RetryUntilConnected ==
  /\ [](\A l \in LoopIds : loops[l].pc = "done" => connected)
  /\ [][\A l \in LoopIds :
          /\ (loops[l].pc = "run" /\ loops'[l].pc = "sleep") =>
               loops'[l].wake = Backoff
          /\ (loops[l].pc = "sleep" /\ loops'[l].pc # "sleep") =>
               loops'[l].pc = "run" /\ loops[l].wake = 0]_vars
  /\ (\E l \in LoopIds : Active(l)) ~> (connected /\ HealthStatus # "connecting")

C16_Witness ==
  /\ connected /\ IsSome(cluster)
  /\ lastAttempt.outcome = "ok"
  /\ Len(warnings) = 2
  /\ IsSome(last_connection_error)

\* C17: any two warnings of the retry loops are at least LogInterval apart, and
\* the error of the latest failed attempt is the one the client holds.
C17_WarningsThrottled ==
  /\ Len(warnings) = 2 => warnings[2] - warnings[1] >= LogInterval
  /\ Len(warnings) >= 1 => last_error_log_time = warnings[Len(warnings)]
  /\ lastAttempt.outcome = "failed" => last_connection_error = lastAttempt.error

C17_Witness ==
  /\ Len(warnings) = 2
  /\ lastAttempt.outcome = "failed"
  /\ clock = warnings[2]
  /\ Cardinality({l \in LoopIds : loops[l].pc = "sleep" /\ loops[l].wake = Backoff}) >= 2

\* C18: get_cluster raises the not-initialized error at once when initialize was
\* never called, never waits then, cannot return while the client is not
\* connected, and has returned only with the client connected.
C18_GetClusterWaits ==
  /\ ~initCalled =>
       /\ waiter = "idle"
       /\ ret.op = "get_cluster" => ret.raised = "RuntimeError"
  /\ (waiter = "waiting" /\ ~connected) => ~ENABLED GetClusterReturns
  /\ (ret.op = "get_cluster" /\ ret.raised = "") => connected

C18_Witness ==
  /\ ret.op = "get_cluster" /\ ret.raised = ""
  /\ connected
  /\ Get(ret.value) = cluster /\ IsSome(cluster)

\* C19: close releases the handle and resets _initialized and _connected, in any
\* state, and a second close changes nothing.
C19_CloseResetsFlags ==
  [][Close =>
       /\ cluster' = None /\ ~initialized' /\ ~connected'
       /\ (cluster = None /\ ~initialized /\ ~connected) =>
            UNCHANGED <<cluster, config, initialized, connected, connection_task,
                        last_connection_error, last_error_log_time>>]_vars

\* C20: without a configuration initialize raises the configuration error and the
\* client stays uninitialized and unchanged; with one it sets _initialized and
\* nothing else: no attempt, no handle, no retry loop.
C20_InitializeOnlySetsFlag ==
  /\ [](~config => /\ ~initialized /\ ~initCalled /\ ~connected /\ cluster = None
                   /\ \A l \in LoopIds : ~Created(l))
  /\ [][Initialize =>
          /\ ~config => (ret'.raised = "ValueError" /\ ~initialized')
          /\ config => (ret'.raised = "" /\ initialized')
          /\ UNCHANGED <<cluster, config, connected, connection_task,
                         last_connection_error, last_error_log_time, loops,
                         lastAttempt, warnings>>]_vars

C20_Witness ==
  /\ ret.op = "initialize" /\ ret.raised = ""
  /\ initialized /\ ~connected /\ cluster = None
  /\ \A l \in LoopIds : ~Created(l)

\* ------------------------------------------------------ record store claims
\* C21: an update sets started_at only when its status is starting and started_at
\* is not set yet (a later starting update leaves it), sets completed_at when its
\* status is completed or failed, and with any other status changes neither.
C21_TimestampsByStatus ==
  [][\A p \in StoreProgress : \A st \in StoreStatuses : \A m \in StoreMessages :
       (StoreUpdate(p, st, m) /\ IsSome(rec)) =>
         /\ Get(rec').started_at =
              IF st = "starting" /\ ~IsSome(Get(rec).started_at)
              THEN Some(now) ELSE Get(rec).started_at
         /\ Get(rec').completed_at =
              IF st \in {"completed", "failed"}
              THEN Some(now) ELSE Get(rec).completed_at]_vars

C21_Witness ==
  /\ IsSome(rec)
  /\ Get(rec).status = "starting"
  /\ IsSome(Get(rec).started_at)
  /\ Get(Get(rec).started_at) + 1 < now
  /\ resp.op = "update_compression_job_progress"

Carries(r, u) ==
  /\ r.status = u.status
  /\ r.progress = u.progress
  /\ Some(r.message) = Some(u.message)

\* C23: a run that was interrupted and resumed returns the result computed from its
\* input and leaves the final row of an uninterrupted run, and a progress report
\* applied to a row that already carries it leaves the row equal.
C23_ReplayLeavesRecordEqual ==
  /\ [](pc = "done" =>
          /\ Get(result).original_size = SumSizes(input.files)
          /\ Get(result).compressed_size = Get(compressed_data).size
          /\ Get(result).status = "completed"
          /\ (IsSome(rec) /\ RecStatus # "pending") =>
               Carries(Get(rec), ProgressUpdate("completed", "")))
  /\ [][(/\ pc = "await_report"
         /\ ~cancelled'
         /\ IsSome(rec) /\ IsSome(rec')
         /\ Carries(Get(rec), ProgressUpdate(cur, ErrOf))) => rec' = rec]_vars

\* C24: once run has been started the row of the job is visible to the store
\* connection of the activities, so that every report is applied to it.
C24_RowVisibleBeforeStart ==
  pc # "start" => IsSome(rec)

StatusProgress(s) ==
  CASE s = "pending" -> 0
    [] s = "starting" -> 0
    [] s = "preparing" -> 25
    [] s = "compressing" -> 50
    [] s = "finalizing" -> 90
    [] s = "completed" -> 100
    [] OTHER -> 0

\* C26: a row whose status is not failed has the progress of its status (0, 0, 25,
\* 50, 90, 100), and while nothing has failed the progress of the row never
\* decreases.
C26_ProgressByStatus ==
  /\ []((IsSome(rec) /\ RecStatus # "failed") =>
          Get(rec).progress = StatusProgress(RecStatus))
  /\ [][(/\ IsSome(rec) /\ IsSome(rec')
         /\ ~anyFail' /\ ~storeFailed' /\ origError' = None) =>
          Get(rec').progress >= Get(rec).progress]_vars

C26_Witness ==
  /\ pc = "done"
  /\ ~anyFail /\ ~storeFailed
  /\ IsSome(rec) /\ RecStatus = "completed" /\ Get(rec).progress = 100
  /\ IsSome(Get(rec).started_at)

\* C27: the step that records status failed leaves the progress of the row as the
\* last applied report set it.
C27_FailedKeepsProgress ==
  [][(/\ IsSome(rec) /\ IsSome(rec')
      /\ ~cancelled'
      /\ RecStatus # "failed"
      /\ Get(rec').status = "failed") =>
       Get(rec').progress = Get(rec).progress]_vars

\* C28: every run ends: run returns, or raises.
C28_EveryRunTerminates ==
  <>(pc \in {"done", "raised", "cancelled"})

ReportedCompressing ==
  \E i \in 1..Len(emitted) : emitted[i].status = "compressing"

\* C29: a format that is zip or tar_gz in any casing is never rejected and selects
\* compress_files_zip, respectively compress_files_tar_gz; a run invokes at most one
\* archive activity, and only after it has issued the compressing report.
C29_DispatchIgnoresCase ==
  /\ Cardinality(archiveInvoked) <= 1
  /\ archiveInvoked # {} =>
       /\ ReportedCompressing
       /\ Lower(input.compression_format) = "zip" =>
            archiveInvoked = {"compress_files_zip"}
       /\ Lower(input.compression_format) = "tar_gz" =>
            archiveInvoked = {"compress_files_tar_gz"}
       /\ Lower(input.compression_format) \in {"zip", "tar_gz"}
  /\ Lower(input.compression_format) \in {"zip", "tar_gz"} =>
       /\ origError # Some("unsupported_format")
       /\ pc \in {"await_archive", "archive_backoff", "done"} => archiveInvoked # {}

C29_Witness ==
  /\ input.compression_format = "Tar_Gz"
  /\ archiveInvoked = {"compress_files_tar_gz"}
  /\ pc = "done"

\* The sum of the sizes the caller declared.
RECURSIVE DeclaredSum(_, _)
DeclaredSum(fs, n) == IF n = 0 THEN 0 ELSE fs[n].size + DeclaredSum(fs, n - 1)

DeclaredDiffers ==
  \E i \in 1..Len(input.files) :
    input.files[i].ok /\ input.files[i].size # input.files[i].length

\* C30: original_size, in run and in the result, is the sum of the declared sizes,
\* also when a declared size differs from the length of the decoded content; a
\* run is not rejected for that.
C30_OriginalSizeIsDeclared ==
  /\ IsSome(original_size) =>
       Get(original_size) = DeclaredSum(input.files, Len(input.files))
  /\ pc = "done" =>
       Get(result).original_size = DeclaredSum(input.files, Len(input.files))
  /\ (DeclaredDiffers /\ IsSome(origError)) =>
       Get(origError) \in {"unsupported_format", "activity_cancelled"}

C30_Witness ==
  /\ pc = "done"
  /\ DeclaredDiffers
  /\ AllDecodable(input.files)
  /\ Get(result).original_size = 0
  /\ Get(result).compressed_size > 0

\* What the caller expects in the blob: for the files 1..n in order, the
\* delimiter line, the decoded bytes and the blank-line separator.
RECURSIVE ExpectedPlain(_, _)
ExpectedPlain(fs, n) ==
  IF n = 0 THEN ""
  ELSE ExpectedPlain(fs, n - 1)
         \o "--- " \o fs[n].name \o " ---\n" \o fs[n].bytes \o "\n\n"

Undecodable(fs) == {i \in 1..Len(fs) : ~fs[i].ok}
Least(S) == CHOOSE i \in S : \A k \in S : i <= k
Greatest(S) == CHOOSE i \in S : \A k \in S : k <= i

\* C31: when every file decodes, compress_files_tar_gz returns a blob whose
\* uncompressed content is, for the files in input order, the delimiter line with
\* the file name, the decoded bytes and a blank-line separator; otherwise it raises
\* an error that names the first file that does not decode and returns no blob.
C31_TarGzContent ==
  resp.op = "compress_files_tar_gz" =>
    IF Undecodable(input.files) = {}
    THEN /\ resp.out = "returned"
         /\ IsSome(resp.content)
         /\ GzipDecompress(Get(resp.content))
              = ExpectedPlain(input.files, Len(input.files))
    ELSE /\ resp.content = None
         /\ resp.out = "Failed to decode file "
                         \o input.files[Least(Undecodable(input.files))].name

C31_Witness ==
  /\ resp.op = "compress_files_tar_gz"
  /\ resp.out = "returned"
  /\ Len(input.files) = 2
  /\ input.files[1].name = "b.txt"
  /\ input.files[2].name = "a.txt"
  /\ GzipDecompress(Get(resp.content)) = "--- b.txt ---\nABC\n\n--- a.txt ---\nXYZ\n\n"

\* zipfile.ZipFile.read(name) on the archive: the entry the name stands for is the
\* one written last under that name; no entry under it is a KeyError (None).
ZipRead(zip, name) ==
  LET hits == {i \in DOMAIN zip.entries : zip.entries[i].name = name}
  IN IF hits = {} THEN None
     ELSE Some(Inflate(zip.entries[Greatest(hits)].data))

\* C32: when every file decodes (two files may share a name), the archive
\* compress_files_zip returns holds one entry per file, and reading it back by
\* entry name gives, for every file, that file's decoded content.
C32_ZipRoundTrip ==
  (resp.op = "compress_files_zip" /\ resp.out = "returned") =>
    /\ Len(Get(resp.content).entries) = Len(input.files)
    /\ \A i \in 1..Len(input.files) :
         ZipRead(Get(resp.content), input.files[i].name) = Some(input.files[i].bytes)

\* C33: whenever _connected is set the handle is present, and get_cluster never
\* returns an empty handle, whatever calls of initialize, init_connection and close
\* were made.
C33_ConnectedHasHandle ==
  /\ connected => IsSome(cluster)
  /\ (ret.op = "get_cluster" /\ ret.raised = "") => IsSome(Get(ret.value))

\* C34: however many retry loops run interleaved, the handle is stored by one
\* successful attempt only: a handle is stored only while _connected is unset and
\* sets it, once _connected is set it stays set, no loop makes a further attempt
\* (none stores a handle, none goes to sleep after a failure), and every loop that
\* was created ends.
C34_OneSuccessfulAttempt ==
  /\ [][/\ (IsSome(cluster') /\ cluster' # cluster) => (~connected /\ connected')
        /\ connected =>
             /\ connected'
             /\ cluster' \in {cluster, None}
             /\ \A l \in LoopIds :
                  loops[l].pc = "run" => loops'[l].pc \in {"run", "done"}]_vars
  /\ \A l \in LoopIds : Created(l) ~> (loops[l].pc = "done")

C34_Witness ==
  /\ connected
  /\ IsSome(cluster)
  /\ lastAttempt.outcome = "ok"
  /\ IsSome(last_connection_error)
  /\ \A l \in {1, 2} : loops[l].pc = "done"

====
